---- MODULE Spec2Model ----
(***************************************************************************)
(* A model of the command registry of auld_network_cli                     *)
(* (src/src/auld_network_cli/commands.py): Command, CommandRegistry        *)
(* (register, _candidates_for_prefix, resolve) and the @command decorator. *)
(*                                                                         *)
(* The read loop of the shell (Shell.run) drives the registry with the     *)
(* commands of src/src/auld_network_cli/handlers.py.                       *)
(*                                                                         *)
(* A Python str is a sequence of one-character strings, so that            *)
(* str.startswith, str.split and str.join are computed, not assumed.       *)
(* A token tuple is a sequence of such strings.                            *)
(***************************************************************************)
EXTENDS Integers, Sequences, FiniteSets, TLC

VARIABLES
    by_mode,    \* CommandRegistry._by_mode: Mode -> list of Command
    before,     \* _by_mode as it was when the last call started
    call,       \* the last call made on the registry and its arguments
    outcome,    \* what that call did: the value returned or the error raised
    shell,      \* the Shell: its mode, whether run() is still looping, and
                \* what the last iteration of the loop did
    registries, \* the CommandRegistry class: its _instance, the objects made
                \* and the references handed out by CommandRegistry()
    router,     \* the RouterCLI of main.py
    cli         \* the CLI of examples/example_with_privs.py

vars == <<by_mode, before, call, outcome, shell, registries, router, cli>>

\* the programs of the repository other than the registry and the shell
elsewhere == <<registries, router, cli>>

----------------------------------------------------------------------------
(* Bounds of the model *)

\* the registry holds at most this many commands, both modes together
MaxCmds == 3

\* the long registry holds at most this many commands
MaxLongList == 12

----------------------------------------------------------------------------
(* Data *)

\* custom_types.Mode
USER == "user"
ADMIN == "admin"
Mode == {USER, ADMIN}

\* Python strings, as sequences of characters
sh == <<"s", "h">>
sho == sh \o <<"o">>
show == sho \o <<"w">>
Show == <<"S", "h", "o", "w">>
shutdown == sh \o <<"u", "t", "d", "o", "w", "n">>
v == <<"v">>
ver == v \o <<"e", "r">>
version == ver \o <<"s", "i", "o", "n">>
vlan == v \o <<"l", "a", "n">>
bogus == <<"b", "o", "g", "u", "s">>
space == <<" ">>

\* the token tuples of the commands that get registered: sh is a prefix of
\* show and of shutdown, which share it and are no prefix of each other;
\* show is also the first token of two longer commands
CommandTokens ==
    {<<sh>>, <<show>>, <<shutdown>>, <<show, version>>, <<show, vlan>>}

\* class Command (frozen dataclass): tokens, mode, handler
Command(tokens, mode, handler) ==
    [tokens |-> tokens, mode |-> mode, handler |-> handler]

NoCommand == Command(<<>>, "none", "none")

\* the tokens argument of Command and of @command: a str or a tuple of str
PyStr(s) == [is_str |-> TRUE, str |-> s, tuple |-> <<>>]
PyTuple(t) == [is_str |-> FALSE, str |-> <<>>, tuple |-> t]
NoValue == PyTuple(<<>>)

\* the Command objects a caller hands to register: one per token tuple and
\* mode, and a second object with the tokens show and another handler
Commands ==
    {Command(t, m, "h1") : t \in CommandTokens, m \in Mode}
        \cup {Command(<<show>>, m, "h2") : m \in Mode}

\* the token lists a caller hands to resolve: the empty list, full token
\* tuples, abbreviations, a different case, unknown words, and lists with
\* more tokens than the commands they start like
Inputs ==
    {<<>>} \cup CommandTokens
        \cup {<<sho>>, <<Show>>, <<bogus>>, <<sho, ver>>, <<sh, v>>,
              <<show, bogus>>, <<shutdown, version>>}

\* the decimal numeral of a natural number, as a Python string
Digits == <<"0", "1", "2", "3", "4", "5", "6", "7", "8", "9">>

RECURSIVE numeral(_)
numeral(n) ==
    IF n < 10 THEN <<Digits[n + 1]>>
    ELSE numeral(n \div 10) \o <<Digits[(n % 10) + 1]>>

\* the commands of a long registry: the k-th is vlan<k> or vlan<k> shutdown
\* (vlan1 is a prefix of vlan10, all start with v)
LongCommands(k) ==
    {Command(<<vlan \o numeral(k)>>, USER, "h1"),
     Command(<<vlan \o numeral(k), shutdown>>, USER, "h1")}

\* the token lists resolved against a long registry
LongInputs == {<<v>>, <<vlan \o numeral(1)>>, <<v, sh>>}

\* the tokens a caller hands to @command: a tuple, the empty one too, or the
\* single word of a one-word command as a str
DecoratorTokens ==
    {PyTuple(t) : t \in CommandTokens \cup {<<>>}}
        \cup {PyStr(t[1]) : t \in {u \in CommandTokens : Len(u) = 1}}

----------------------------------------------------------------------------
(* Python's str and list operations *)

Whitespace == {" "}

\* s.split(): the maximal runs of non-whitespace characters of s
RECURSIVE split_from(_, _, _)
split_from(s, word, out) ==
    IF s = <<>> THEN IF word = <<>> THEN out ELSE Append(out, word)
    ELSE IF Head(s) \in Whitespace
         THEN split_from(Tail(s), <<>>,
                         IF word = <<>> THEN out ELSE Append(out, word))
         ELSE split_from(Tail(s), Append(word, Head(s)), out)

split(s) == split_from(s, <<>>, <<>>)

\* (mutant) equality where the code asks for a prefix
startswith_whole(s, t) == s = t

\* s.startswith(t)
startswith(s, t) == Len(t) <= Len(s) /\ SubSeq(s, 1, Len(t)) = t

\* sep.join(strs)
RECURSIVE join(_, _)
join(sep, strs) ==
    IF strs = <<>> THEN <<>>
    ELSE IF Len(strs) = 1 THEN strs[1]
    ELSE strs[1] \o sep \o join(sep, Tail(strs))

\* (mutant) a slice that cuts nothing
UpTo_uncut(xs, n) == xs

\* xs[:n]
UpTo(xs, n) == SubSeq(xs, 1, IF Len(xs) < n THEN Len(xs) ELSE n)

\* the number of alternatives an error message lists at most
MaxListed == 10

----------------------------------------------------------------------------
(* Outcomes of a call *)

Returned(val) ==
    [raised |-> FALSE, head |-> "", items |-> <<>>, value |-> val]

\* raise ValueError(head + ", ".join(items))
ValueError(head, items) ==
    [raised |-> TRUE, head |-> head, items |-> items, value |-> NoCommand]

NoOutcome == Returned(NoCommand)

\* the fixed text each error message starts with
EmptyInput == "empty input"
UnknownCommand == "unknown command: "
IncompleteCommand == "incomplete command. did you mean: "
AmbiguousCommand == "ambiguous command: "
DuplicateCommand == "duplicate command in mode "

----------------------------------------------------------------------------
(* Command *)

\* Command.__post_init__: the error raised, or the tokens the object keeps
post_init(tokens) ==
    IF (~tokens.is_str /\ tokens.tuple = <<>>)
           \/ (tokens.is_str /\ tokens.str = <<>>)
    THEN [out |-> ValueError("This command must have at least one token: ",
                             <<>>),
          tokens |-> <<>>]
    ELSE IF tokens.is_str
         THEN [out |-> Returned(NoCommand), tokens |-> split(tokens.str)]
         ELSE [out |-> Returned(NoCommand), tokens |-> tokens.tuple]

----------------------------------------------------------------------------
(* CommandRegistry *)

\* CommandRegistry.__init__
EmptyRegistry == [m \in Mode |-> <<>>]

\* (mutant) a duplicate is the same Command object, not the same tokens
register_same_object(reg, cmd) ==
    IF \E i \in 1..Len(reg[cmd.mode]) : reg[cmd.mode][i] = cmd
    THEN [out |-> ValueError(DuplicateCommand, <<join(space, cmd.tokens)>>),
          reg |-> reg]
    ELSE [out |-> Returned(NoCommand),
          reg |-> [reg EXCEPT ![cmd.mode] = Append(@, cmd)]]

\* (mutant) no duplicate check
register_unchecked(reg, cmd) ==
    [out |-> Returned(NoCommand),
     reg |-> [reg EXCEPT ![cmd.mode] = Append(@, cmd)]]

\* CommandRegistry.register: the error raised or the new _by_mode
register(reg, cmd) ==
    IF \E i \in 1..Len(reg[cmd.mode]) : reg[cmd.mode][i].tokens = cmd.tokens
    THEN [out |-> ValueError(DuplicateCommand, <<join(space, cmd.tokens)>>),
          reg |-> reg]
    ELSE [out |-> Returned(NoCommand),
          reg |-> [reg EXCEPT ![cmd.mode] = Append(@, cmd)]]

\* (mutant) the commands of every mode are candidates
candidates_any_mode(reg, mode, input_tokens) ==
    SelectSeq(reg[USER] \o reg[ADMIN],
              LAMBDA c : /\ ~(Len(input_tokens) > Len(c.tokens))
                         /\ \A i \in 1..Len(input_tokens) :
                                startswith(c.tokens[i], input_tokens[i]))

\* (mutant) a mode without candidates falls back on the other mode's commands
candidates_fallback_mode(reg, mode, input_tokens) ==
    LET accepts(c) == /\ ~(Len(input_tokens) > Len(c.tokens))
                      /\ \A i \in 1..Len(input_tokens) :
                             startswith(c.tokens[i], input_tokens[i])
        own == SelectSeq(reg[mode], accepts)
    IN  IF own # <<>> THEN own
        ELSE SelectSeq(reg[IF mode = USER THEN ADMIN ELSE USER], accepts)

\* CommandRegistry._candidates_for_prefix
candidates_for_prefix(reg, mode, input_tokens) ==
    SelectSeq(reg[mode],
              LAMBDA c : /\ ~(Len(input_tokens) > Len(c.tokens))
                         /\ \A i \in 1..Len(input_tokens) :
                                startswith(c.tokens[i], input_tokens[i]))

\* " ".join(m.tokens) for m in ms
JoinedTokens(ms) == [i \in 1..Len(ms) |-> join(space, ms[i].tokens)]

\* (mutant) ambiguity is decided on all candidates, the longer ones too
resolve_all_candidates(reg, mode, input_tokens) ==
    IF input_tokens = <<>> THEN ValueError(EmptyInput, <<>>)
    ELSE
    LET matches == candidates_for_prefix(reg, mode, input_tokens)
        full_matches ==
            SelectSeq(matches, LAMBDA m : Len(input_tokens) = Len(m.tokens))
    IN  IF full_matches = <<>>
        THEN IF matches = <<>>
             THEN ValueError(UnknownCommand, <<join(space, input_tokens)>>)
             ELSE ValueError(IncompleteCommand,
                             JoinedTokens(UpTo(matches, MaxListed)))
        ELSE IF Len(matches) > 1
             THEN ValueError(AmbiguousCommand,
                             JoinedTokens(UpTo(matches, MaxListed)))
             ELSE Returned(full_matches[1])

\* (mutant) an incomplete command names the first candidate only
resolve_first_candidate(reg, mode, input_tokens) ==
    IF input_tokens = <<>> THEN ValueError(EmptyInput, <<>>)
    ELSE
    LET matches == candidates_for_prefix(reg, mode, input_tokens)
        full_matches ==
            SelectSeq(matches, LAMBDA m : Len(input_tokens) = Len(m.tokens))
    IN  IF full_matches = <<>>
        THEN IF matches = <<>>
             THEN ValueError(UnknownCommand, <<join(space, input_tokens)>>)
             ELSE ValueError(IncompleteCommand,
                             JoinedTokens(UpTo(matches, 1)))
        ELSE IF Len(full_matches) > 1
             THEN ValueError(AmbiguousCommand,
                             JoinedTokens(UpTo(full_matches, MaxListed)))
             ELSE Returned(full_matches[1])

\* (mutant) no check for an empty input
resolve_unguarded(reg, mode, input_tokens) ==
    LET matches == candidates_for_prefix(reg, mode, input_tokens)
        full_matches ==
            SelectSeq(matches, LAMBDA m : Len(input_tokens) = Len(m.tokens))
    IN  IF full_matches = <<>>
        THEN IF matches = <<>>
             THEN ValueError(UnknownCommand, <<join(space, input_tokens)>>)
             ELSE ValueError(IncompleteCommand,
                             JoinedTokens(UpTo(matches, MaxListed)))
        ELSE IF Len(full_matches) > 1
             THEN ValueError(AmbiguousCommand,
                             JoinedTokens(UpTo(full_matches, MaxListed)))
             ELSE Returned(full_matches[1])

\* CommandRegistry.resolve
resolve(reg, mode, input_tokens) ==
    IF input_tokens = <<>> THEN ValueError(EmptyInput, <<>>)
    ELSE
    LET matches == candidates_for_prefix(reg, mode, input_tokens)
        full_matches ==
            SelectSeq(matches, LAMBDA m : Len(input_tokens) = Len(m.tokens))
    IN  IF full_matches = <<>>
        THEN IF matches = <<>>
             THEN ValueError(UnknownCommand, <<join(space, input_tokens)>>)
             ELSE ValueError(IncompleteCommand,
                             JoinedTokens(UpTo(matches, MaxListed)))
        ELSE IF Len(full_matches) > 1
             THEN ValueError(AmbiguousCommand,
                             JoinedTokens(UpTo(full_matches, MaxListed)))
             ELSE Returned(full_matches[1])

----------------------------------------------------------------------------
(* The state machine *)

\* no Shell has been made
NoShell == [mode |-> "none"]

\* the other programs are not looked at
NoRegistries == [made |-> FALSE]
NoRouter == [made |-> FALSE]
NoCLI == [made |-> FALSE]

Elsewhere == registries = NoRegistries /\ router = NoRouter /\ cli = NoCLI

NoCall == [op |-> "none", mode |-> "none", input_tokens |-> <<>>,
           cmd |-> NoCommand, tokens |-> NoValue]

TotalCmds(reg) == Len(reg[USER]) + Len(reg[ADMIN])

Init ==
    /\ by_mode = EmptyRegistry
    /\ before = EmptyRegistry
    /\ call = NoCall
    /\ outcome = NoOutcome
    /\ shell = NoShell
    /\ Elsewhere

\* registry.register(cmd)
Register(cmd) ==
    LET r == register(by_mode, cmd)
    IN  /\ TotalCmds(r.reg) <= MaxCmds
        /\ before' = by_mode
        /\ by_mode' = r.reg
        /\ call' = [op |-> "register", mode |-> cmd.mode,
                    input_tokens |-> <<>>, cmd |-> cmd, tokens |-> NoValue]
        /\ outcome' = r.out
        /\ UNCHANGED <<shell, elsewhere>>

\* registry.resolve(mode, input_tokens)
Resolve(mode, input_tokens) ==
    /\ before' = by_mode
    /\ call' = [op |-> "resolve", mode |-> mode,
                input_tokens |-> input_tokens, cmd |-> NoCommand,
                tokens |-> NoValue]
    /\ outcome' = resolve(by_mode, mode, input_tokens)
    /\ UNCHANGED <<by_mode, shell, elsewhere>>

\* @command(tokens, mode)(func): build the Command and register it in the
\* module's registry
CommandDecorator(tokens, mode, func) ==
    LET token_tuple == IF tokens.is_str THEN PyTuple(<<tokens.str>>)
                       ELSE tokens
        made == post_init(token_tuple)
        cmd == Command(made.tokens, mode, func)
        r == register(by_mode, cmd)
    IN  /\ before' = by_mode
        /\ UNCHANGED <<shell, elsewhere>>
        /\ IF made.out.raised
           THEN /\ by_mode' = by_mode
                /\ call' = [op |-> "command", mode |-> mode,
                            input_tokens |-> <<>>, cmd |-> NoCommand,
                            tokens |-> tokens]
                /\ outcome' = made.out
           ELSE /\ cmd \in Commands
                /\ TotalCmds(r.reg) <= MaxCmds
                /\ by_mode' = r.reg
                /\ call' = [op |-> "command", mode |-> mode,
                            input_tokens |-> <<>>, cmd |-> cmd,
                            tokens |-> tokens]
                /\ outcome' = r.out

Next ==
    \/ \E cmd \in Commands : Register(cmd)
    \/ \E tokens \in DecoratorTokens, mode \in Mode :
           CommandDecorator(tokens, mode, "h1")
    \/ \E mode \in Mode, input_tokens \in Inputs : Resolve(mode, input_tokens)

Spec == Init /\ [][Next]_vars

----------------------------------------------------------------------------
(* The same registry filled with more commands than a message lists *)

\* registry.register(cmd), the k-th registration of a long registry
RegisterLong(cmd) ==
    LET r == register(by_mode, cmd)
    IN  /\ Len(by_mode[USER]) < MaxLongList
        /\ before' = by_mode
        /\ by_mode' = r.reg
        /\ call' = [op |-> "register", mode |-> cmd.mode,
                    input_tokens |-> <<>>, cmd |-> cmd, tokens |-> NoValue]
        /\ outcome' = r.out
        /\ UNCHANGED <<shell, elsewhere>>

NextLong ==
    \/ \E cmd \in LongCommands(Len(by_mode[USER]) + 1) : RegisterLong(cmd)
    \/ \E mode \in Mode, input_tokens \in LongInputs :
           Resolve(mode, input_tokens)

SpecLong == Init /\ [][NextLong]_vars

----------------------------------------------------------------------------
(* Command(tokens, mode, handler) called directly, on any tokens value *)

\* a str given as tokens has at most this many characters
MaxStrLen == 3

\* a tuple given as tokens has at most this many elements
MaxTupleLen == 2

Chars == {"s", "h", " "}

\* the strings of at most n characters
Strings(n) == UNION {[1..k -> Chars] : k \in 0..n}

\* the values given as tokens: a str, or a tuple of short strs
TokensValues ==
    {PyStr(str) : str \in Strings(MaxStrLen)}
    \cup {PyTuple(t) : t \in UNION {[1..k -> Strings(1)] : k \in 0..MaxTupleLen}}

\* Command(tokens=tokens, mode=mode, handler=handler): the dataclass's
\* __init__ stores the fields and runs __post_init__
Construct(tokens, mode, handler) ==
    LET made == post_init(tokens)
    IN  /\ call' = [op |-> "Command", mode |-> mode, input_tokens |-> <<>>,
                    cmd |-> NoCommand, tokens |-> tokens]
        /\ outcome' = IF made.out.raised THEN made.out
                      ELSE Returned(Command(made.tokens, mode, handler))
        /\ UNCHANGED <<by_mode, before, shell, elsewhere>>

NextCommand ==
    \E tokens \in TokensValues, mode \in Mode, handler \in {"h1", "h2"} :
        Construct(tokens, mode, handler)

SpecCommand == Init /\ [][NextCommand]_vars

----------------------------------------------------------------------------
(* The listings: the alternatives of resolve's errors and the help of       *)
(* h_help, on registries holding the same commands in every order           *)

\* the characters of the model in the order of their code points
AsciiOrder ==
    << " ", "0", "1", "2", "3", "4", "5", "6", "7", "8", "9", "?", "S",
       "a", "b", "c", "d", "e", "f", "g", "h", "i", "j", "k", "l", "m",
       "n", "o", "p", "q", "r", "s", "t", "u", "v", "w", "x", "y", "z" >>

\* ord(c)
Ord(c) == CHOOSE i \in 1..Len(AsciiOrder) : AsciiOrder[i] = c

\* a < b on two str
RECURSIVE str_lt(_, _)
str_lt(a, b) ==
    IF b = <<>> THEN FALSE
    ELSE IF a = <<>> THEN TRUE
    ELSE IF Head(a) = Head(b) THEN str_lt(Tail(a), Tail(b))
    ELSE Ord(Head(a)) < Ord(Head(b))

\* s < t on two tuples of str
RECURSIVE tuple_lt(_, _)
tuple_lt(s, t) ==
    IF t = <<>> THEN FALSE
    ELSE IF s = <<>> THEN TRUE
    ELSE IF Head(s) = Head(t) THEN tuple_lt(Tail(s), Tail(t))
    ELSE str_lt(Head(s), Head(t))

\* sorted(cmds, key=lambda c: c.tokens) builds its result by placing each
\* command after those that are not greater: the sort is stable
RECURSIVE placed(_, _)
placed(c, out) ==
    IF out = <<>> THEN <<c>>
    ELSE IF tuple_lt(c.tokens, Head(out).tokens) THEN <<c>> \o out
    ELSE <<Head(out)>> \o placed(c, Tail(out))

RECURSIVE sorted_from(_, _)
sorted_from(cmds, out) ==
    IF cmds = <<>> THEN out
    ELSE sorted_from(Tail(cmds), placed(Head(cmds), out))

\* (mutant) the commands are listed as they were registered
sorted_by_tokens_unsorted(cmds) == cmds

sorted_by_tokens(cmds) == sorted_from(cmds, <<>>)

\* what h_help prints after its heading: the first column of each line, the
\* joined tokens of the mode's commands in sorted order
help_listing(reg, mode) == JoinedTokens(sorted_by_tokens(reg[mode]))

\* the lines h_help printed
Listed(items) ==
    [raised |-> FALSE, head |-> "Available commands", items |-> items,
     value |-> NoCommand]

\* the commands of the listings: show and shutdown share 'sh', which is a
\* command itself, and show has a longer command
ListingCommands ==
    {Command(t, USER, "h1") :
        t \in {<<sh>>, <<show>>, <<shutdown>>, <<show, version>>}}

\* they are registered in any order, all or some of them
ListingOrders ==
    UNION {{f \in [1..k -> ListingCommands] :
               \A i, j \in 1..k : f[i] = f[j] => i = j} :
           k \in 0..Cardinality(ListingCommands)}

InitListing ==
    /\ by_mode \in {[EmptyRegistry EXCEPT ![USER] = f] : f \in ListingOrders}
    /\ before = EmptyRegistry
    /\ call = NoCall
    /\ outcome = NoOutcome
    /\ shell = NoShell
    /\ Elsewhere

\* h_help(shell) with the shell in the given mode
Help(mode) ==
    /\ before' = by_mode
    /\ call' = [op |-> "help", mode |-> mode, input_tokens |-> <<>>,
                cmd |-> NoCommand, tokens |-> NoValue]
    /\ outcome' = Listed(help_listing(by_mode, mode))
    /\ UNCHANGED <<by_mode, shell, elsewhere>>

NextListing ==
    \/ \E mode \in Mode : Help(mode)
    \/ \E mode \in Mode, input_tokens \in Inputs : Resolve(mode, input_tokens)

SpecListing == InitListing /\ [][NextListing]_vars

----------------------------------------------------------------------------
(* The shell: the handlers of handlers.py and the read loop that calls     *)
(* them. shell.py is not part of the sources read; the loop is modelled    *)
(* from its description, its tests (tests/test_main.py, TestShell) and its *)
(* caller main(), with examples/building_a_cli.py's Shell.run beside it.   *)

\* run() reads at most this many times
MaxReads == 3

configure == <<"c", "o", "n", "f", "i", "g", "u", "r", "e">>
conf == <<"c", "o", "n", "f">>
exit == <<"e", "x", "i", "t">>
ex == <<"e", "x">>
e == <<"e">>
qmark == <<"?">>
test == <<"t", "e", "s", "t">>
error == <<"e", "r", "r", "o", "r">>
quit == <<"q", "u", "i", "t">>
warn == <<"w", "a", "r", "n">>

\* what a handler call does: the mode it leaves in the shell, and whether it
\* returned rc or raised
HandlerReturn(mode, rc) == [mode |-> mode, kind |-> "return", rc |-> rc]
HandlerRaise(mode, exc) == [mode |-> mode, kind |-> exc, rc |-> 0]
NoResult == [mode |-> "none", kind |-> "none", rc |-> 0]

\* (mutant) configure returns 0 and leaves the mode
h_configure_stays(mode) == HandlerReturn(mode, 0)

\* h_configure(shell)
h_configure(mode) == HandlerReturn(ADMIN, 0)

\* (mutant) exit always returns 0 with the mode USER, never raising
h_exit_returns(mode) == HandlerReturn(USER, 0)

\* h_exit(shell)
h_exit(mode) ==
    IF mode = ADMIN THEN HandlerReturn(USER, 0)
    ELSE HandlerRaise(mode, "SystemExit")

\* h_help(shell): prints the commands of the mode
h_help(mode) == HandlerReturn(mode, 0)

\* h_show(shell)
h_show(mode) == HandlerReturn(mode, 0)

\* the handlers of the tests: Mock(return_value=rc), Mock(side_effect=Exception)
mock_return(mode, rc) == HandlerReturn(mode, rc)
mock_raise(mode) == HandlerRaise(mode, "Exception")

\* (mutant) h_help sorts the list of the mode in place (commands.sort())
h_help_registry_sorts(reg, mode) ==
    [reg EXCEPT ![mode] = sorted_by_tokens(@)]

\* the registry once h_help(shell) has run: sorted() builds a new list and
\* leaves shell.registry._by_mode[shell.mode] as it was
h_help_registry(reg, mode) == reg

\* the registry once cmd.handler(shell) has run: h_help is the only handler
\* that touches shell.registry
RegistryAfter(handler, reg, mode) ==
    IF handler = "h_help" THEN h_help_registry(reg, mode) ELSE reg

\* cmd.handler(shell)
CallHandler(handler, mode) ==
    CASE handler = "h_configure" -> h_configure(mode)
      [] handler = "h_exit" -> h_exit(mode)
      [] handler = "h_help" -> h_help(mode)
      [] handler = "h_show" -> h_show(mode)
      [] handler = "mock_zero" -> mock_return(mode, 0)
      [] handler = "mock_neg" -> mock_return(mode, -1)
      [] handler = "mock_pos" -> mock_return(mode, 1)
      [] handler = "mock_raise" -> mock_raise(mode)

\* @command(tokens, mode) applied to func, tokens being a str: what
\* CommandDecorator does, as a function of the registry
command(reg, tokens, mode, func) ==
    LET made == post_init(PyTuple(<<tokens>>))
    IN  IF made.out.raised THEN [out |-> made.out, reg |-> reg]
        ELSE register(reg, Command(made.tokens, mode, func))

Decorator(tokens, mode, func) ==
    [tokens |-> tokens, mode |-> mode, func |-> func]

\* the registry after the decorators decs were applied in turn
RECURSIVE Decorated(_, _)
Decorated(reg, decs) ==
    IF decs = <<>> THEN reg
    ELSE Decorated(command(reg, decs[1].tokens, decs[1].mode,
                           decs[1].func).reg,
                   Tail(decs))

\* (mutant) configure is registered under both modes, as exit and ? are
BuiltinDecorators_configure_both ==
    << Decorator(configure, ADMIN, "h_configure"),
       Decorator(configure, USER, "h_configure"),
       Decorator(exit, USER, "h_exit"),
       Decorator(exit, ADMIN, "h_exit"),
       Decorator(qmark, ADMIN, "h_help"),
       Decorator(qmark, USER, "h_help"),
       Decorator(show, ADMIN, "h_show") >>

\* the decorators of handlers.py in the order Python applies them: top to
\* bottom through the module, and for one function the lowest decorator first
BuiltinDecorators ==
    << Decorator(configure, USER, "h_configure"),
       Decorator(exit, USER, "h_exit"),
       Decorator(exit, ADMIN, "h_exit"),
       Decorator(qmark, ADMIN, "h_help"),
       Decorator(qmark, USER, "h_help"),
       Decorator(show, ADMIN, "h_show") >>

\* commands registered like those of the tests, in both modes
TestDecorators ==
    << Decorator(test, USER, "mock_zero"),
       Decorator(error, USER, "mock_raise"),
       Decorator(error, ADMIN, "mock_raise"),
       Decorator(quit, USER, "mock_neg"),
       Decorator(quit, ADMIN, "mock_neg"),
       Decorator(warn, USER, "mock_pos"),
       Decorator(warn, ADMIN, "mock_pos") >>

BuiltinRegistry == Decorated(EmptyRegistry, BuiltinDecorators)
TestRegistry == Decorated(BuiltinRegistry, TestDecorators)

\* the lines typed at the prompt
Lines ==
    { <<>>, space, space \o space,
      configure, conf, exit, ex, e, qmark, show, sh,
      space \o exit, show \o space, space \o configure \o space,
      show \o space \o version, configure \o space \o space \o show,
      bogus, test, error, quit, warn }

\* s.strip()
RECURSIVE lstrip(_)
lstrip(s) ==
    IF s # <<>> /\ Head(s) \in Whitespace THEN lstrip(Tail(s)) ELSE s

RECURSIVE rstrip(_)
rstrip(s) ==
    IF s # <<>> /\ s[Len(s)] \in Whitespace
    THEN rstrip(SubSeq(s, 1, Len(s) - 1))
    ELSE s

\* (mutant) the line is not trimmed
strip_nothing(s) == s

strip(s) == rstrip(lstrip(s))

\* what the loop prints
Printed(what, head, items, rc) ==
    [what |-> what, head |-> head, items |-> items, rc |-> rc]

\* Shell(): mode USER, not yet reading
NewShell ==
    [mode |-> USER, running |-> TRUE, exit_code |-> <<>>, via |-> "none",
     reads |-> 0, event |-> "none", line |-> <<>>, mode_before |-> "none",
     resolved |-> FALSE, invoked |-> <<>>, result |-> NoResult,
     printed |-> <<>>]

InitShell ==
    /\ by_mode \in {BuiltinRegistry, TestRegistry}
    /\ before = EmptyRegistry
    /\ call = NoCall
    /\ outcome = NoOutcome
    /\ shell = NewShell
    /\ Elsewhere

\* the shell at the start of an iteration that read ev
Reading(ev, raw) ==
    [shell EXCEPT !.reads = @ + 1, !.event = ev, !.line = raw,
                  !.mode_before = shell.mode, !.resolved = FALSE,
                  !.invoked = <<>>, !.result = NoResult, !.printed = <<>>]

\* run() is over with exit code 0
Terminated(this, via) ==
    [this EXCEPT !.running = FALSE, !.exit_code = <<0>>, !.via = via]

\* (mutant) the error of resolve is not caught and ends run()
ResolveFailed_uncaught(this, res) ==
    [this EXCEPT !.resolved = TRUE, !.running = FALSE, !.exit_code = <<1>>,
                 !.via = "ValueError"]

\* (mutant) the Exception of a handler is not caught and ends run()
HandlerFailed_uncaught(this) ==
    [this EXCEPT !.running = FALSE, !.exit_code = <<1>>,
                 !.via = "Exception"]

\* (mutant) a negative rc is printed like a positive one, and the loop goes on
InterpretRc_prints(this, rc) ==
    IF rc = 0 THEN this
    ELSE [this EXCEPT !.printed = Append(@, Printed("rc", <<>>, <<>>, rc))]

\* registry.resolve raised: the loop prints the error and goes on
ResolveFailed(this, res) ==
    [this EXCEPT !.resolved = TRUE,
                 !.printed = Append(@, Printed("error", res.head,
                                               res.items, 0))]

\* the handler raised an Exception: the loop prints a handler error and
\* goes on
HandlerFailed(this) ==
    [this EXCEPT !.printed =
        Append(@, Printed("handler error", <<>>, <<>>, 1))]

\* the handler raised SystemExit, which no except clause of the loop takes:
\* it leaves run() and main(), and the process ends with status 0
HandlerExited(this) == Terminated(this, "SystemExit")

\* the handler returned rc: a negative rc ends run() with 0, a positive one
\* is printed
InterpretRc(this, rc) ==
    IF rc < 0 THEN Terminated(this, "return")
    ELSE IF rc = 0 THEN this
    ELSE [this EXCEPT !.printed = Append(@, Printed("rc", <<>>, <<>>, rc))]

\* the rest of the iteration once cmd.handler(shell) has done h
AfterHandler(this, h) ==
    LET done == [this EXCEPT !.mode = h.mode, !.result = h]
    IN  CASE h.kind = "SystemExit" -> HandlerExited(done)
          [] h.kind = "Exception" -> HandlerFailed(done)
          [] h.kind = "return" -> InterpretRc(done, h.rc)

\* (mutant) the end of the input is taken like an interrupt: read again
ReadEOF_reprompts ==
    /\ shell.running
    /\ shell.reads < MaxReads
    /\ shell' = Reading("eof", <<>>)
    /\ UNCHANGED <<by_mode, before, call, outcome, elsewhere>>

\* (mutant) an interrupt is taken like the end of the input: return 0
ReadInterrupt_returns ==
    /\ shell.running
    /\ shell.reads < MaxReads
    /\ shell' = Terminated(Reading("interrupt", <<>>), "return")
    /\ UNCHANGED <<by_mode, before, call, outcome, elsewhere>>

\* an iteration of run() whose read meets the end of the input
ReadEOF ==
    /\ shell.running
    /\ shell.reads < MaxReads
    /\ shell' = Terminated(Reading("eof", <<>>), "return")
    /\ UNCHANGED <<by_mode, before, call, outcome, elsewhere>>

\* an iteration of run() whose read is interrupted
ReadInterrupt ==
    /\ shell.running
    /\ shell.reads < MaxReads
    /\ shell' = Reading("interrupt", <<>>)
    /\ UNCHANGED <<by_mode, before, call, outcome, elsewhere>>

\* (mutant) the handler of the resolved command is called a second time
ReadLine_invokes_twice(raw) ==
    LET stripped == strip(raw)
        tokens == split(stripped)
        res == resolve(by_mode, shell.mode, tokens)
        this == Reading("line", raw)
    IN  /\ shell.running
        /\ shell.reads < MaxReads
        /\ UNCHANGED elsewhere
        /\ IF stripped = <<>>
           THEN /\ shell' = this
                /\ UNCHANGED <<by_mode, before, call, outcome>>
           ELSE /\ before' = by_mode
                /\ by_mode' = IF res.raised THEN by_mode
                              ELSE RegistryAfter(res.value.handler, by_mode,
                                                 shell.mode)
                /\ call' = [op |-> "resolve", mode |-> shell.mode,
                            input_tokens |-> tokens, cmd |-> NoCommand,
                            tokens |-> NoValue]
                /\ outcome' = res
                /\ shell' =
                     IF res.raised THEN ResolveFailed(this, res)
                     ELSE AfterHandler(
                              [this EXCEPT !.resolved = TRUE,
                                         !.invoked = <<res.value.handler,
                                                                res.value.handler>>],
                              CallHandler(res.value.handler, shell.mode))

\* an iteration of run() that reads the line raw
ReadLine(raw) ==
    LET stripped == strip(raw)
        tokens == split(stripped)
        res == resolve(by_mode, shell.mode, tokens)
        this == Reading("line", raw)
    IN  /\ shell.running
        /\ shell.reads < MaxReads
        /\ UNCHANGED elsewhere
        /\ IF stripped = <<>>
           THEN /\ shell' = this
                /\ UNCHANGED <<by_mode, before, call, outcome>>
           ELSE /\ before' = by_mode
                /\ by_mode' = IF res.raised THEN by_mode
                              ELSE RegistryAfter(res.value.handler, by_mode,
                                                 shell.mode)
                /\ call' = [op |-> "resolve", mode |-> shell.mode,
                            input_tokens |-> tokens, cmd |-> NoCommand,
                            tokens |-> NoValue]
                /\ outcome' = res
                /\ shell' =
                     IF res.raised THEN ResolveFailed(this, res)
                     ELSE AfterHandler(
                              [this EXCEPT !.resolved = TRUE,
                                         !.invoked = <<res.value.handler>>],
                              CallHandler(res.value.handler, shell.mode))

NextShell ==
    \/ ReadEOF
    \/ ReadInterrupt
    \/ \E raw \in Lines : ReadLine(raw)

SpecShell == InitShell /\ [][NextShell]_vars

----------------------------------------------------------------------------
(* What the properties are stated with *)

\* the commands a registry holds for a mode
Registered(reg, m) == {reg[m][i] : i \in 1..Len(reg[m])}

\* p is a prefix of s: s cut after some number of characters
IsPrefixOf(p, s) == \E k \in 0..Len(s) : SubSeq(s, 1, k) = p

\* every input token is a prefix of c's token at the same position
PrefixCompatible(c, input) ==
    /\ Len(input) <= Len(c.tokens)
    /\ \A i \in 1..Len(input) : IsPrefixOf(input[i], c.tokens[i])

\* c has as many tokens as the input and accepts it position by position
FullMatch(c, input) == Len(c.tokens) = Len(input) /\ PrefixCompatible(c, input)

Resolved == call.op = "resolve"

\* the commands of the resolved mode that accept the input
FullMatches == {c \in Registered(by_mode, call.mode) :
                    FullMatch(c, call.input_tokens)}
Compatibles == {c \in Registered(by_mode, call.mode) :
                    PrefixCompatible(c, call.input_tokens)}

Failed(head) ==
    outcome.raised /\ outcome.head = head /\ outcome.value = NoCommand

----------------------------------------------------------------------------
(* Properties of resolve *)

\* C1: resolving the exact full token sequence of a registered command in its
\* mode returns that command.
C1_ExactTokensResolve ==
    Resolved =>
        \A c \in Registered(by_mode, call.mode) :
            c.tokens = call.input_tokens => outcome = Returned(c)

C4_AbbreviationIsIncomplete ==
    (/\ Resolved
     /\ Len(call.input_tokens) = 1
     /\ \E c \in FullMatches : c.tokens # call.input_tokens
     /\ Compatibles # FullMatches)
        => /\ Failed(IncompleteCommand)
           /\ \E c \in FullMatches :
                  \E k \in 1..Len(outcome.items) :
                      outcome.items[k] = join(space, c.tokens)

\* C7: a non-empty input that no command of the mode is prefix-compatible
\* with fails as an unknown command naming the space-joined input, whatever
\* the other mode holds.
C7_NoCandidateIsUnknown ==
    (Resolved /\ call.input_tokens # <<>> /\ Compatibles = {})
        => /\ Failed(UnknownCommand)
           /\ outcome.items = <<join(space, call.input_tokens)>>

C7_Witness ==
    /\ Resolved
    /\ call.mode = USER
    /\ call.input_tokens = <<show, version>>
    /\ \E c \in Registered(by_mode, USER) : c.tokens = <<show>>
    /\ \E c \in Registered(by_mode, ADMIN) : c.tokens = <<show, version>>
    /\ Failed(UnknownCommand)

\* C8: resolving the empty token list fails with the empty-input error in
\* every mode and for every registry content.
C8_EmptyInputFails ==
    (Resolved /\ call.input_tokens = <<>>)
        => Failed(EmptyInput) /\ outcome.items = <<>>

C8_Witness ==
    /\ Resolved
    /\ call.input_tokens = <<>>
    /\ by_mode[call.mode] # <<>>
    /\ Failed(EmptyInput)

----------------------------------------------------------------------------
(* Properties of register *)

OtherMode(m) == IF m = USER THEN ADMIN ELSE USER

\* C9: register(cmd) fails with the duplicate-command error exactly when a
\* command with the same tokens is already registered in cmd.mode; a failure
\* leaves both lists as they were, a success appends cmd to the list of
\* cmd.mode and leaves the other list as it was.
C9_RegisterRejectsDuplicates ==
    call.op = "register" =>
        LET cmd == call.cmd
            dup == \E c \in Registered(before, cmd.mode) :
                       c.tokens = cmd.tokens
        IN  /\ outcome.raised <=> dup
            /\ outcome.raised =>
                   Failed(DuplicateCommand) /\ by_mode = before
            /\ ~outcome.raised =>
                   /\ by_mode[cmd.mode] = Append(before[cmd.mode], cmd)
                   /\ by_mode[OtherMode(cmd.mode)]
                          = before[OtherMode(cmd.mode)]

C9_Witness ==
    /\ call.op = "register"
    /\ call.cmd = Command(<<show>>, ADMIN, "h2")
    /\ Failed(DuplicateCommand)
    /\ by_mode[USER] = <<Command(<<show>>, USER, "h1")>>
    /\ by_mode[ADMIN] = <<Command(<<show>>, ADMIN, "h1")>>

\* C10: no list of the registry ever holds two commands with the same
\* tokens, and the alternatives an ambiguous-command error lists are
\* distinct commands of the mode.
C10_NoDuplicateTokens ==
    /\ \A m \in Mode : \A i, j \in 1..Len(by_mode[m]) :
           by_mode[m][i].tokens = by_mode[m][j].tokens => i = j
    /\ (Resolved /\ outcome.raised /\ outcome.head = AmbiguousCommand) =>
           \E f \in [1..Len(outcome.items) -> 1..Len(by_mode[call.mode])] :
               /\ \A k, l \in DOMAIN f : f[k] = f[l] => k = l
               /\ \A k \in DOMAIN f :
                      outcome.items[k]
                          = join(space, by_mode[call.mode][f[k]].tokens)

C10_Witness ==
    /\ call.op = "command"
    /\ call.tokens = PyStr(show)
    /\ Failed(DuplicateCommand)
    /\ Len(by_mode[call.mode]) = MaxCmds

----------------------------------------------------------------------------
(* Properties of the alternatives an error lists *)

\* the positions, in the list of the resolved mode, of the commands in S
Positions(S) ==
    {i \in 1..Len(by_mode[call.mode]) : by_mode[call.mode][i] \in S}

\* the message lists the commands of S in registration order and stops
\* after MaxListed of them
ListsFirstOf(S) ==
    LET idx == Positions(S)
        rank(i) == Cardinality({j \in idx : j <= i})
    IN  /\ Len(outcome.items)
               = IF Cardinality(idx) < MaxListed THEN Cardinality(idx)
                 ELSE MaxListed
        /\ \A i \in idx :
               rank(i) <= MaxListed =>
                   outcome.items[rank(i)]
                       = join(space, by_mode[call.mode][i].tokens)

\* the message lists every command of S
ListsAllOf(S) ==
    \A c \in S : \E k \in 1..Len(outcome.items) :
        outcome.items[k] = join(space, c.tokens)

\* C5 (as stated): when two or more commands of the mode have the token
\* count of the input and accept it, resolve fails with an ambiguous-command
\* error that lists the tokens of each of them.
C5_AmbiguousListsAll ==
    (Resolved /\ Cardinality(FullMatches) >= 2)
        => Failed(AmbiguousCommand) /\ ListsAllOf(FullMatches)

\* C5 (amended): ... an ambiguous-command error that lists, in registration
\* order, the tokens of the first 10 of them (of all, when they are at most
\* 10), and no command is returned.
C5_AmbiguousListsFirstTen ==
    (Resolved /\ Cardinality(FullMatches) >= 2)
        => Failed(AmbiguousCommand) /\ ListsFirstOf(FullMatches)

C5_Witness ==
    /\ Resolved
    /\ Cardinality(FullMatches) > MaxListed
    /\ Cardinality(Compatibles) > Cardinality(FullMatches)
    /\ Failed(AmbiguousCommand)

\* C6 (as stated): a non-empty input that is prefix-compatible with longer
\* commands of the mode only fails with an incomplete-command error whose
\* message contains the space-joined tokens of those commands.
C6_IncompleteListsAll ==
    (/\ Resolved
     /\ call.input_tokens # <<>>
     /\ FullMatches = {}
     /\ Compatibles # {})
        => Failed(IncompleteCommand) /\ ListsAllOf(Compatibles)

\* C6 (amended): ... whose message contains, in registration order, the
\* space-joined tokens of the first 10 of those commands (of all, when they
\* are at most 10).
C6_IncompleteListsFirstTen ==
    (/\ Resolved
     /\ call.input_tokens # <<>>
     /\ FullMatches = {}
     /\ Compatibles # {})
        => Failed(IncompleteCommand) /\ ListsFirstOf(Compatibles)

C6_Witness ==
    /\ Resolved
    /\ call.input_tokens = <<v>>
    /\ FullMatches = {}
    /\ Cardinality(Compatibles) > MaxListed
    /\ Failed(IncompleteCommand)

\* the tokens value holds no token: an empty tuple, or a str that splits into
\* nothing
YieldsNoTokens(tokens) ==
    IF tokens.is_str THEN split(tokens.str) = <<>> ELSE tokens.tuple = <<>>

Constructed == call.op = "Command"

\* C11: every Command that was constructed holds at least one token and
\* no empty token, and constructing one from a tokens value that holds no
\* token is rejected
C11_ConstructedTokensNonEmpty ==
    Constructed =>
        /\ ~outcome.raised =>
               /\ Len(outcome.value.tokens) >= 1
               /\ \A i \in 1..Len(outcome.value.tokens) :
                      outcome.value.tokens[i] # <<>>
        /\ YieldsNoTokens(call.tokens) => outcome.raised

\* what the list of mode m may hold instead: nothing, or any one command of m
OtherLists(m) == {<<>>} \cup {<<c>> : c \in {x \in Commands : x.mode = m}}

\* C12: resolve(M, input) returns only a command registered under M, and
\* its outcome, the command returned or the error raised, is the same
\* whatever the other mode's list holds
C12_ResolveSeesOnlyItsMode ==
    Resolved =>
        /\ ~outcome.raised =>
               /\ outcome.value \in Registered(by_mode, call.mode)
               /\ outcome.value.mode = call.mode
        /\ \A other \in OtherLists(OtherMode(call.mode)) :
               resolve([by_mode EXCEPT ![OtherMode(call.mode)] = other],
                       call.mode, call.input_tokens) = outcome

\* 'sh' resolved in USER, where only 'show' is registered, while ADMIN holds
\* 'shutdown', which 'sh' abbreviates as well
C12_Witness ==
    /\ Resolved
    /\ call.mode = USER
    /\ call.input_tokens = <<sh>>
    /\ \E c \in Registered(by_mode, ADMIN) : c.tokens = <<shutdown>>
    /\ ~outcome.raised
    /\ outcome.value = Command(<<show>>, USER, "h1")

\* the last iteration of the loop read a line
ReadALine == shell.event = "line"

\* the tokens of the line the last iteration read
TypedTokens == split(strip(shell.line))

\* the last line was word, whole or abbreviated, and nothing else
Typed(word) ==
    /\ ReadALine
    /\ Len(TypedTokens) = 1
    /\ TypedTokens[1] # <<>>
    /\ IsPrefixOf(TypedTokens[1], word)

\* the last iteration invoked handler h
Invoked(h) == \E i \in 1..Len(shell.invoked) : shell.invoked[i] = h

\* C13: the loop invokes the configure handler only in mode USER and the
\* show handler only in mode ADMIN; configure typed in ADMIN, or show typed
\* in USER, fails to resolve, invokes nothing and leaves the mode as it was
C13_ModeOnlyHandlers ==
    /\ Invoked("h_configure") => shell.mode_before = USER
    /\ Invoked("h_show") => shell.mode_before = ADMIN
    /\ ((Typed(configure) /\ shell.mode_before = ADMIN)
          \/ (Typed(show) /\ shell.mode_before = USER))
        => /\ shell.resolved
           /\ outcome.raised
           /\ shell.invoked = <<>>
           /\ shell.mode = shell.mode_before
           /\ shell.printed = <<Printed("error", outcome.head,
                                        outcome.items, 0)>>

\* configure was typed in mode ADMIN and was an unknown command there
C13_Witness ==
    /\ shell.line = configure
    /\ ReadALine
    /\ shell.mode_before = ADMIN
    /\ shell.resolved
    /\ Failed(UnknownCommand)
    /\ shell.mode = ADMIN
    /\ shell.running

\* C14: the configure handler, invoked in mode USER as it is from the
\* initial state, sets the mode to ADMIN and returns 0; the exit handler
\* invoked in mode ADMIN sets the mode back to USER and returns 0; the loop
\* is still running after either
C14_ConfigureThenExit ==
    /\ (Invoked("h_configure") /\ shell.mode_before = USER)
        => /\ shell.result = HandlerReturn(ADMIN, 0)
           /\ shell.mode = ADMIN
           /\ shell.running /\ shell.exit_code = <<>>
    /\ (Invoked("h_exit") /\ shell.mode_before = ADMIN)
        => /\ shell.result = HandlerReturn(USER, 0)
           /\ shell.mode = USER
           /\ shell.running /\ shell.exit_code = <<>>

\* the second line read from the initial state was exit, typed in mode ADMIN:
\* the first was configure
C14_Witness ==
    /\ shell.reads = 2
    /\ shell.line = exit
    /\ Invoked("h_exit")
    /\ shell.mode_before = ADMIN
    /\ shell.mode = USER
    /\ shell.running

\* C15: when the exit handler is invoked in mode USER the loop terminates,
\* run() is over with exit code 0, and the mode is still USER
C15_ExitInUserTerminates ==
    (Invoked("h_exit") /\ shell.mode_before = USER)
        => /\ ~shell.running
           /\ shell.exit_code = <<0>>
           /\ shell.mode = USER

\* 'ex' typed in mode USER resolved to exit, whose SystemExit ended run()
C15_Witness ==
    /\ shell.line = ex
    /\ shell.mode_before = USER
    /\ shell.invoked = <<"h_exit">>
    /\ shell.result = HandlerRaise(USER, "SystemExit")
    /\ ~shell.running
    /\ shell.exit_code = <<0>>
    /\ shell.via = "SystemExit"

\* C16: the end of the input ends run() with exit code 0 in either mode,
\* and no handler is invoked for it
C16_EOFTerminates ==
    shell.event = "eof"
        => /\ ~shell.running
           /\ shell.exit_code = <<0>>
           /\ shell.via = "return"
           /\ ~shell.resolved
           /\ shell.invoked = <<>>
           /\ shell.mode = shell.mode_before

\* the input ended while the shell was in mode ADMIN
C16_Witness ==
    /\ shell.event = "eof"
    /\ shell.mode_before = ADMIN
    /\ ~shell.running
    /\ shell.exit_code = <<0>>

\* C17: an interrupt during the read does not end the loop and does not
\* change the mode; nothing is resolved and no handler is invoked for the
\* line that was being read
C17_InterruptReprompts ==
    shell.event = "interrupt"
        => /\ shell.running
           /\ shell.exit_code = <<>>
           /\ shell.mode = shell.mode_before
           /\ ~shell.resolved
           /\ shell.invoked = <<>>

\* the read was interrupted in mode ADMIN, with reads left to do
C17_Witness ==
    /\ shell.event = "interrupt"
    /\ shell.mode_before = ADMIN
    /\ shell.mode = ADMIN
    /\ shell.running
    /\ shell.reads < MaxReads

\* the handler invoked by the last iteration returned, or raised
HandlerReturned == shell.result.kind = "return"
HandlerRaised == shell.result.kind \in {"Exception", "SystemExit"}

C19_RaiseNeverTerminates ==
    HandlerRaised =>
        /\ shell.running
        /\ shell.exit_code = <<>>
        /\ shell.mode = shell.mode_before
        /\ shell.printed = <<Printed("handler error", <<>>, <<>>, 1)>>

\* C19, amended: when a handler raises an Exception, the loop reports it
\* and goes on, not terminated, the mode being what it was before the
\* invocation; when a handler raises SystemExit, as exit does in mode USER,
\* nothing is reported and run() is over with exit code 0, the mode unchanged
C19_ExceptionIsCaught ==
    /\ shell.result.kind = "Exception"
        => /\ shell.running
           /\ shell.exit_code = <<>>
           /\ shell.mode = shell.mode_before
           /\ shell.printed = <<Printed("handler error", <<>>, <<>>, 1)>>
    /\ shell.result.kind = "SystemExit"
        => /\ ~shell.running
           /\ shell.exit_code = <<0>>
           /\ shell.mode = shell.mode_before
           /\ shell.printed = <<>>

\* the handler of 'error' raised an Exception in mode ADMIN, and the loop
\* has reads left to do
C19_Witness ==
    /\ shell.line = error
    /\ shell.mode_before = ADMIN
    /\ shell.invoked = <<"mock_raise">>
    /\ shell.result = HandlerRaise(ADMIN, "Exception")
    /\ shell.running
    /\ shell.mode = ADMIN
    /\ shell.reads < MaxReads

\* the last iteration called resolve, which raised
ResolutionFailed == ReadALine /\ shell.resolved /\ outcome.raised

\* C20: when resolve fails, the loop prints the message of the error and
\* goes on: no handler is invoked, the mode is unchanged and the loop is not
\* terminated
C20_ResolveErrorIsPrinted ==
    ResolutionFailed =>
        /\ shell.printed = <<Printed("error", outcome.head,
                                     outcome.items, 0)>>
        /\ shell.invoked = <<>>
        /\ shell.result = NoResult
        /\ shell.mode = shell.mode_before
        /\ shell.running
        /\ shell.exit_code = <<>>

\* 'e' typed in mode ADMIN, where it abbreviates both exit and error
C20_Witness ==
    /\ shell.line = e
    /\ shell.mode_before = ADMIN
    /\ ResolutionFailed
    /\ Failed(AmbiguousCommand)
    /\ shell.printed = <<Printed("error", AmbiguousCommand,
                                 <<exit, error>>, 0)>>
    /\ shell.running

\* C21: a line that is empty once trimmed makes the loop read again in the
\* same mode without calling resolve; so the loop never calls resolve with
\* an empty token list and never gets the empty-input error
C21_BlankLineReprompts ==
    /\ (ReadALine /\ strip(shell.line) = <<>>)
        => /\ ~shell.resolved
           /\ shell.invoked = <<>>
           /\ shell.printed = <<>>
           /\ shell.mode = shell.mode_before
           /\ shell.running
    /\ Resolved => /\ call.input_tokens # <<>>
                   /\ ~Failed(EmptyInput)

\* a line of two blanks was read in mode ADMIN
C21_Witness ==
    /\ ReadALine
    /\ shell.line = space \o space
    /\ shell.mode_before = ADMIN
    /\ shell.mode = ADMIN
    /\ ~shell.resolved
    /\ shell.running

\* the marker that says a listing was cut
Ellipsis == <<".", ".", ".">>

\* the commands an incomplete or ambiguous error has to report
Reported == IF Failed(AmbiguousCommand) THEN FullMatches ELSE Compatibles

\* C22: an incomplete-command or ambiguous-command error with more than 10
\* commands to report lists exactly 10 of them and then the marker '...';
\* with 10 or fewer it lists them all and carries no marker
C22_EllipsisBeyondTen ==
    (Resolved /\ (Failed(IncompleteCommand) \/ Failed(AmbiguousCommand)))
        => IF Cardinality(Reported) > MaxListed
           THEN /\ Len(outcome.items) = MaxListed + 1
                /\ outcome.items[MaxListed + 1] = Ellipsis
                /\ \A k \in 1..MaxListed :
                       \E c \in Reported :
                           outcome.items[k] = join(space, c.tokens)
           ELSE /\ Len(outcome.items) = Cardinality(Reported)
                /\ ListsAllOf(Reported)
                /\ \A k \in 1..Len(outcome.items) :
                       outcome.items[k] # Ellipsis

\* the token tuples a, b are in lexicographic order
tuple_le(a, b) == a = b \/ tuple_lt(a, b)

\* the registries that hold the commands of reg, those of mode m in any order
Reorderings(reg, m) ==
    {[reg EXCEPT ![m] = f] :
        f \in {g \in [1..Len(reg[m]) -> Registered(reg, m)] :
                  \A i, j \in 1..Len(reg[m]) : g[i] = g[j] => i = j}}

\* the items are the joined tokens of commands of S, one item per command
\* and in lexicographic order of the tokens
ListsSorted(S) ==
    \E f \in [1..Len(outcome.items) -> S] :
        /\ \A k \in 1..Len(outcome.items) :
               outcome.items[k] = join(space, f[k].tokens)
        /\ \A i, j \in 1..Len(outcome.items) :
               i < j => tuple_lt(f[i].tokens, f[j].tokens)

Helped == call.op = "help"

\* C23, the listing of h_help: the commands of the mode in lexicographic
\* order of their tokens, the same for every order of registration
C23_HelpListingSorted ==
    Helped =>
        /\ Len(outcome.items) = Len(by_mode[call.mode])
        /\ ListsSorted(Registered(by_mode, call.mode))
        /\ \A reg \in Reorderings(by_mode, call.mode) :
               help_listing(reg, call.mode) = outcome.items

\* C23: every listing of commands, the alternatives of an incomplete or
\* ambiguous error and the help of the mode alike, is in lexicographic order
\* of the tokens, and is the same when the same commands were registered in
\* another order
C23_ListingsSorted ==
    /\ C23_HelpListingSorted
    /\ (Resolved /\ (Failed(IncompleteCommand) \/ Failed(AmbiguousCommand)))
        => /\ ListsSorted(Reported)
           /\ \A reg \in Reorderings(by_mode, call.mode) :
                  resolve(reg, call.mode, call.input_tokens) = outcome

\* C23, amended: the help listing of a mode is in lexicographic order of the
\* tokens and the same for every order of registration; the alternatives of
\* an incomplete or ambiguous error are listed in the order of registration
C23_HelpSortedErrorsAsRegistered ==
    /\ C23_HelpListingSorted
    /\ (Resolved /\ (Failed(IncompleteCommand) \/ Failed(AmbiguousCommand)))
        => ListsFirstOf(Reported)

\* help was asked in mode USER, whose commands were registered shutdown
\* first and sh last; the listing starts with sh and ends with shutdown
C23_Witness ==
    /\ Helped
    /\ call.mode = USER
    /\ Len(by_mode[USER]) = 4
    /\ by_mode[USER][1].tokens = <<shutdown>>
    /\ by_mode[USER][4].tokens = <<sh>>
    /\ outcome.items = <<sh, show, join(space, <<show, version>>), shutdown>>

\* C24: running the loop never changes the registry: whatever is read and
\* whatever the handlers do, both lists of the registry stay as they were
\* when run() started
C24_LoopKeepsRegistry == [][by_mode' = by_mode]_vars

\* help ran in mode ADMIN, after configure, on the registry of handlers.py
C24_Witness ==
    /\ Invoked("h_help")
    /\ shell.mode_before = ADMIN
    /\ shell.reads >= 2
    /\ by_mode = BuiltinRegistry
    /\ before = BuiltinRegistry


----------------------------------------------------------------------------
(* The CommandRegistry class: __new__, __init__ and the references to it *)

\* CommandRegistry() is called at most this many times
MaxRefs == 3

\* at most this many commands are registered through the references
MaxSharedCmds == 2

\* the module-level _registry is the first reference made
ModuleRegistry == 1

\* what object.__new__ returns: an object with no attribute set
NewObject == [initialized |-> FALSE, by_mode |-> EmptyRegistry]

\* the class when commands.py starts to load: _instance is None (0), no
\* object exists, nobody holds a reference, nothing was registered
ClassLoaded ==
    [made |-> TRUE, instance |-> 0, objects |-> <<>>, refs |-> <<>>,
     registered |-> {}, via |-> 0, last |-> "class"]

\* (mutant) __new__ makes an object at every call
registry_new_fresh(cls) ==
    [cls EXCEPT !.objects = Append(@, NewObject),
                !.instance = Len(cls.objects) + 1]

\* CommandRegistry.__new__: the class after the call; the object returned
\* is its _instance
registry_new(cls) ==
    IF cls.instance = 0
    THEN [cls EXCEPT !.objects = Append(@, NewObject),
                     !.instance = Len(cls.objects) + 1]
    ELSE cls

\* (mutant) __init__ sets _by_mode at every call
registry_init_resets(self) ==
    [initialized |-> TRUE, by_mode |-> EmptyRegistry]

\* CommandRegistry.__init__: the object after the call
registry_init(self) ==
    IF ~self.initialized
    THEN [initialized |-> TRUE, by_mode |-> EmptyRegistry]
    ELSE self

\* CommandRegistry(): type.__call__ runs __new__, then __init__ on what it
\* returned; the caller keeps the reference
CommandRegistry(cls) ==
    LET made == registry_new(cls)
    IN  [made EXCEPT !.objects[made.instance] = registry_init(@),
                     !.refs = Append(@, made.instance),
                     !.last = "CommandRegistry"]

\* the _by_mode seen through a reference
ByModeOf(ref) == registries.objects[registries.refs[ref]].by_mode

\* commands.py is imported: _registry = CommandRegistry()
InitSingleton ==
    /\ by_mode = EmptyRegistry
    /\ before = EmptyRegistry
    /\ call = NoCall
    /\ outcome = NoOutcome
    /\ shell = NoShell
    /\ registries = CommandRegistry(ClassLoaded)
    /\ router = NoRouter
    /\ cli = NoCLI

\* somebody calls CommandRegistry() and keeps what it returns
ConstructRegistry ==
    /\ Len(registries.refs) < MaxRefs
    /\ registries' = CommandRegistry(registries)
    /\ UNCHANGED <<by_mode, before, call, outcome, shell, router, cli>>

\* the class after a register or @command through ref left r
Shared(ref, r, op) ==
    [registries EXCEPT
        !.objects[registries.refs[ref]].by_mode = r.reg,
        !.registered = IF r.out.raised THEN @
                       ELSE @ \cup {r.reg[m][Len(r.reg[m])] :
                                      m \in {n \in Mode :
                                               r.reg[n] # ByModeOf(ref)[n]}},
        !.via = ref,
        !.last = op]

\* ref.register(cmd), ref one of the references handed out
RegisterThrough(ref, cmd) ==
    LET r == register(ByModeOf(ref), cmd)
    IN  /\ TotalCmds(r.reg) <= MaxSharedCmds
        /\ registries' = Shared(ref, r, "register")
        /\ call' = [op |-> "register", mode |-> cmd.mode,
                    input_tokens |-> <<>>, cmd |-> cmd, tokens |-> NoValue]
        /\ outcome' = r.out
        /\ UNCHANGED <<by_mode, before, shell, router, cli>>

\* @command(tokens, mode) on func: registers through the module's _registry
CommandThroughModule(tokens, mode, func) ==
    LET r == command(ByModeOf(ModuleRegistry), tokens, mode, func)
    IN  /\ TotalCmds(r.reg) <= MaxSharedCmds
        /\ registries' = Shared(ModuleRegistry, r, "command")
        /\ call' = [op |-> "command", mode |-> mode, input_tokens |-> <<>>,
                    cmd |-> NoCommand, tokens |-> PyStr(tokens)]
        /\ outcome' = r.out
        /\ UNCHANGED <<by_mode, before, shell, router, cli>>

NextSingleton ==
    \/ ConstructRegistry
    \/ \E ref \in 1..Len(registries.refs), cmd \in Commands :
           RegisterThrough(ref, cmd)
    \/ \E tokens \in {show, shutdown}, mode \in Mode :
           CommandThroughModule(tokens, mode, "h1")

SpecSingleton == InitSingleton /\ [][NextSingleton]_vars

\* the commands a reference shows
SeenThrough(ref) ==
    UNION {{ByModeOf(ref)[m][i] : i \in 1..Len(ByModeOf(ref)[m])} :
             m \in Mode}

\* C25: CommandRegistry is a singleton: every reference handed out by
\* CommandRegistry() is the one instance of the class, and through every
\* reference exactly the commands registered so far, through whichever
\* reference or through @command, are seen, each under its mode; so no
\* later construction has reset them
C25_SingletonSharesCommands ==
    registries.made =>
        \A ref \in 1..Len(registries.refs) :
            /\ registries.refs[ref] = registries.instance
            /\ SeenThrough(ref) = registries.registered
            /\ \A c \in registries.registered :
                   \E i \in 1..Len(ByModeOf(ref)[c.mode]) :
                       ByModeOf(ref)[c.mode][i] = c

\* a command was registered through a reference other than _registry, and
\* CommandRegistry() was called again after that
C25_Witness ==
    /\ registries.made
    /\ registries.last = "CommandRegistry"
    /\ registries.via > ModuleRegistry
    /\ registries.registered # {}
    /\ Len(registries.refs) = MaxRefs


----------------------------------------------------------------------------
(* @command and Command on the same tokens values *)

\* at most this many commands are registered by decorators
MaxDecorated == 2

show_version == show \o space \o version

\* the tokens values handed to both: a str with a blank in it, a one-word
\* str, the empty str, and tuples, one of them with a blank inside a token
DecoratedValues ==
    {PyStr(show_version), PyStr(show), PyStr(<<>>),
     PyTuple(<<show, version>>), PyTuple(<<show_version>>), PyTuple(<<>>)}

\* (mutant) the decorator hands the str to Command as it is
decorator_passes_str(reg, tokens, mode, func) ==
    LET made == post_init(tokens)
    IN  IF made.out.raised THEN [out |-> made.out, reg |-> reg]
        ELSE register(reg, Command(made.tokens, mode, func))

\* command(tokens, mode)(func), the inner decorator: the error raised or
\* the registry after it
decorator(reg, tokens, mode, func) ==
    LET token_tuple == IF tokens.is_str THEN PyTuple(<<tokens.str>>)
                       ELSE tokens
        made == post_init(token_tuple)
    IN  IF made.out.raised THEN [out |-> made.out, reg |-> reg]
        ELSE register(reg, Command(made.tokens, mode, func))

\* @command(tokens, mode) is put on func
ApplyDecorator(tokens, mode, func) ==
    LET r == decorator(by_mode, tokens, mode, func)
    IN  /\ TotalCmds(by_mode) < MaxDecorated
        /\ before' = by_mode
        /\ by_mode' = r.reg
        /\ call' = [op |-> "command", mode |-> mode, input_tokens |-> <<>>,
                    cmd |-> Command(<<>>, mode, func), tokens |-> tokens]
        /\ outcome' = r.out
        /\ UNCHANGED <<shell, elsewhere>>

NextDecorator ==
    \/ \E tokens \in DecoratedValues, mode \in Mode :
           ApplyDecorator(tokens, mode, "h1")
    \/ \E tokens \in DecoratedValues, mode \in Mode :
           Construct(tokens, mode, "h1")

SpecDecorator == Init /\ [][NextDecorator]_vars

\* the tokens value as one token, unsplit, if a str; as it is, if a tuple
AsOneToken(tokens) ==
    IF tokens.is_str THEN <<tokens.str>> ELSE tokens.tuple

\* the tokens value split at whitespace if a str; as it is, if a tuple
AsSplit(tokens) ==
    IF tokens.is_str THEN split(tokens.str) ELSE tokens.tuple

\* C26: a decorator that returns has appended to the list of its mode, and
\* to no other, exactly one command, whose tokens are (S,) for a str S and
\* the tuple itself for a tuple, and one that raises has appended nothing;
\* a Command constructed directly holds the whitespace-split words of a
\* str and the tuple itself for a tuple
C26_DecoratorKeepsStrWhole ==
    /\ call.op = "command" =>
           IF outcome.raised THEN by_mode = before
           ELSE by_mode =
                    [before EXCEPT ![call.mode] =
                        Append(@, Command(AsOneToken(call.tokens), call.mode,
                                          call.cmd.handler))]
    /\ (call.op = "Command" /\ ~outcome.raised) =>
           outcome.value.tokens = AsSplit(call.tokens)

\* a str with a blank in it went through the decorator and was registered
C26_Witness ==
    /\ call.op = "command"
    /\ call.tokens = PyStr(show_version)
    /\ ~outcome.raised
    /\ by_mode[call.mode] # <<>>
    /\ AsOneToken(call.tokens) # AsSplit(call.tokens)


Prefixes(s) == {SubSeq(s, 1, k) : k \in 0..Len(s)}

\* a token that splitting a line can yield: not empty, no whitespace in it
Typable(t) == t # <<>> /\ \A i \in 1..Len(t) : t[i] \notin Whitespace

\* the token lists of input lines for which cmd is a candidate at all: no
\* longer than its tokens, each a typable prefix of the token at its place
LinesFor(cmd) ==
    UNION {{T \in [1..k -> UNION {Prefixes(cmd.tokens[i]) :
                                    i \in 1..Len(cmd.tokens)}] :
              \A i \in 1..k : /\ T[i] \in Prefixes(cmd.tokens[i])
                              /\ Typable(T[i])} :
             k \in 1..Len(cmd.tokens)}

\* some input line resolves to cmd in mode m
Reachable(m, cmd) ==
    \E T \in LinesFor(cmd) : resolve(by_mode, m, T) = Returned(cmd)

\* C28: every command registered under a mode is what some input line,
\* trimmed and split, resolves to in that mode
C28_RegisteredIsReachable ==
    \A m \in Mode : \A i \in 1..Len(by_mode[m]) :
        Reachable(m, by_mode[m][i])


----------------------------------------------------------------------------
(* main.py: RouterCLI, its cmdloop and onecmd *)

terminal == <<"t", "e", "r", "m", "i", "n", "a", "l">>
interface == <<"i", "n", "t", "e", "r", "f", "a", "c", "e">>
eth0 == <<"e", "t", "h", "0">>
eth1 == <<"e", "t", "h", "1">>
ip == <<"i", "p">>
no == <<"n", "o">>
address == <<"a", "d", "d", "r", "e", "s", "s">>

\* None, where a str may stand
None == <<>>

\* the lines typed at the router's prompt
RouterLines ==
    {<<>>, exit, space \o exit \o space, quit, configure,
     configure \o space \o terminal, interface,
     interface \o space \o eth0, interface \o space \o eth1,
     shutdown, no \o space \o shutdown, ip, bogus}

\* RouterCLI.__init__, no configuration file to load; was and event keep
\* what the last iteration of cmdloop started from and did
NewRouter ==
    [made |-> TRUE, in_config_mode |-> FALSE, current_iface |-> None,
     shutdown |-> {}, running |-> TRUE, event |-> "none", line |-> <<>>,
     caught |-> "", was |-> [in_config_mode |-> FALSE,
                             current_iface |-> None]]

\* RouterCLI.cmd_configure
cmd_configure(self, args) ==
    IF strip(args) = terminal THEN [self EXCEPT !.in_config_mode = TRUE]
    ELSE self

\* RouterCLI.config_interface: sets or clears shutdown in the running
\* configuration; tokens[1] of a one-token subcommand raises IndexError
config_interface(self, iface, subcmd) ==
    LET tokens == split(subcmd)
    IN  IF tokens = <<>> THEN self
        ELSE IF tokens[1] = ip /\ Len(tokens) < 2
        THEN [self EXCEPT !.caught = "IndexError"]
        ELSE IF tokens[1] = ip /\ tokens[2] = address /\ Len(tokens) >= 4
        THEN self
        ELSE IF tokens[1] = shutdown
        THEN [self EXCEPT !.shutdown = @ \cup {iface}]
        ELSE IF tokens[1] = no /\ Len(tokens) < 2
        THEN [self EXCEPT !.caught = "IndexError"]
        ELSE IF tokens[1] = no /\ tokens[2] = shutdown
        THEN [self EXCEPT !.shutdown = @ \ {iface}]
        ELSE self

\* RouterCLI.onecmd: the router after the line; sys.exit(0) ends the loop
\* and the program
onecmd(self, raw) ==
    LET line == strip(raw)
    IN  IF line = <<>> THEN self
        ELSE IF self.in_config_mode
        THEN IF line = exit
             THEN [self EXCEPT !.in_config_mode = FALSE,
                               !.current_iface = None]
             ELSE IF startswith(line, interface \o space)
                       /\ Len(split(line)) >= 2
             THEN [self EXCEPT !.current_iface = split(line)[2]]
             ELSE IF self.current_iface # None
             THEN IF line = exit
                  THEN [self EXCEPT !.current_iface = None]
                  ELSE config_interface(self, self.current_iface, line)
             ELSE self
        ELSE IF line \in {exit, quit}
        THEN [self EXCEPT !.running = FALSE, !.caught = "SystemExit"]
        ELSE IF startswith(line, configure)
        THEN cmd_configure(self,
                 IF Len(line) > 9 THEN strip(SubSeq(line, 11, Len(line)))
                 ELSE <<>>)
        ELSE self

InitRouter ==
    /\ by_mode = EmptyRegistry
    /\ before = EmptyRegistry
    /\ call = NoCall
    /\ outcome = NoOutcome
    /\ shell = NoShell
    /\ registries = NoRegistries
    /\ router = NewRouter
    /\ cli = NoCLI

\* what an iteration of cmdloop starts from
RouterReading(ev, raw) ==
    [router EXCEPT !.event = ev, !.line = raw, !.caught = "",
                   !.was = [in_config_mode |-> router.in_config_mode,
                            current_iface |-> router.current_iface]]

\* an iteration of cmdloop that reads the line raw
RouterLine(raw) ==
    /\ router.running
    /\ router' = onecmd(RouterReading("line", raw), raw)
    /\ UNCHANGED <<by_mode, before, call, outcome, shell, registries, cli>>

\* input() raises EOFError: break
RouterEOF ==
    /\ router.running
    /\ router' = [RouterReading("eof", <<>>) EXCEPT !.running = FALSE]
    /\ UNCHANGED <<by_mode, before, call, outcome, shell, registries, cli>>

\* Ctrl-C at the prompt: the KeyboardInterrupt ends the loop
RouterInterrupt ==
    /\ router.running
    /\ router' = [RouterReading("interrupt", <<>>) EXCEPT !.running = FALSE]
    /\ UNCHANGED <<by_mode, before, call, outcome, shell, registries, cli>>

NextRouter ==
    \/ \E raw \in RouterLines : RouterLine(raw)
    \/ RouterEOF
    \/ RouterInterrupt

SpecRouter == InitRouter /\ [][NextRouter]_vars

\* the last iteration read exit while an interface was being configured
ExitInInterface ==
    /\ router.made
    /\ router.event = "line"
    /\ strip(router.line) = exit
    /\ router.was.in_config_mode
    /\ router.was.current_iface # None

\* C29: exit typed while an interface is being configured leaves the
\* interface only, the router stays in configuration mode; configuration
\* mode is left only by an exit typed outside any interface
C29_ExitLeavesInterfaceOnly ==
    /\ ExitInInterface =>
           /\ router.current_iface = None
           /\ router.in_config_mode
    /\ (router.made /\ router.was.in_config_mode /\ ~router.in_config_mode)
           => /\ strip(router.line) = exit
              /\ router.was.current_iface = None


----------------------------------------------------------------------------
(* examples/example_with_privs.py: CLI, its loop and dispatch *)

\* at most this many operations are staged in the candidate
MaxOps == 2

end == <<"e", "n", "d">>
help == <<"h", "e", "l", "p">>
commit == <<"c", "o", "m", "m", "i", "t">>
discard == <<"d", "i", "s", "c", "a", "r", "d">>
candidate == <<"c", "a", "n", "d", "i", "d", "a", "t", "e">>
dns == <<"d", "n", "s">>
EXIT == <<"E", "X", "I", "T">>
ten_one == <<"1", "0", ".", "0", ".", "0", ".", "1">>

UpperCase ==
    <<"A", "B", "C", "D", "E", "F", "G", "H", "I", "J", "K", "L", "M">>
        \o <<"N", "O", "P", "Q", "R", "S", "T", "U", "V", "W", "X", "Y", "Z">>
LowerCase ==
    <<"a", "b", "c", "d", "e", "f", "g", "h", "i", "j", "k", "l", "m">>
        \o <<"n", "o", "p", "q", "r", "s", "t", "u", "v", "w", "x", "y", "z">>

\* str.lower, on ASCII
lower(s) ==
    [i \in 1..Len(s) |->
        IF \E k \in 1..Len(UpperCase) : UpperCase[k] = s[i]
        THEN LowerCase[CHOOSE k \in 1..Len(UpperCase) : UpperCase[k] = s[i]]
        ELSE s[i]]

\* int(t) returns for a token t: decimal digits after an optional sign
is_int(t) ==
    LET digits == IF t # <<>> /\ t[1] \in {"+", "-"} THEN Tail(t) ELSE t
    IN  /\ digits # <<>>
        /\ \A i \in 1..Len(digits) :
               \E d \in 1..Len(Digits) : Digits[d] = digits[i]

\* the lines typed at the prompt
CliLines ==
    {<<>>, space, exit, EXIT, quit, end, qmark, configure,
     configure \o space \o terminal, interface,
     interface \o space \o eth0,
     interface \o space \o eth0 \o space \o eth1,
     commit, no \o space \o candidate,
     ip \o space \o address \o space \o ten_one,
     ip \o space \o address \o space \o ten_one \o space \o numeral(24),
     ip \o space \o address \o space \o ten_one \o space \o bogus,
     dns \o space \o ten_one, no \o space \o ip \o space \o address, bogus}

\* CLI.__init__; ops counts candidate["ops"], the other fields keep what
\* the last iteration of loop started from and how it ended
NewCLI ==
    [made |-> TRUE, mode |-> "exec", iface |-> None, ops |-> 0,
     looping |-> TRUE, event |-> "none", line |-> <<>>, returned |-> "",
     was |-> "exec"]

\* dispatch returns ret and leaves the CLI as self
Dispatched(self, ret) == [self EXCEPT !.returned = ret]

\* CLI.commit_candidate, rc what the elevated child returned
commit_candidate(self, rc) ==
    IF self.ops = 0 THEN self
    ELSE IF rc = 0 THEN [self EXCEPT !.ops = 0]
    ELSE self

\* ip address ADDR PREFIX: int(prefix) is evaluated while the operation is
\* built, so its ValueError leaves dispatch before anything is staged
int_prefix(self, prefix) ==
    IF is_int(prefix) THEN Dispatched([self EXCEPT !.ops = @ + 1], "True")
    ELSE Dispatched(self, "ValueError")

\* CLI.dispatch(line)
dispatch(self, line, rc) ==
    LET toks == split(line)
        cmd == lower(toks[1])
        n == Len(toks)
    IN  IF cmd \in {quit, exit} /\ self.mode = "exec"
        THEN Dispatched(self, "False")
        ELSE IF cmd = end
        THEN Dispatched([self EXCEPT !.mode = "exec", !.iface = None],
                        "True")
        ELSE IF cmd \in {qmark, help} THEN Dispatched(self, "True")
        ELSE IF self.mode = "exec"
        THEN IF cmd = configure /\ n >= 2 /\ toks[2] = terminal
             THEN Dispatched([self EXCEPT !.mode = "config"], "True")
             ELSE Dispatched(self, "True")
        ELSE IF self.mode = "config"
        THEN IF cmd = interface /\ n >= 2
             THEN Dispatched([self EXCEPT !.iface = join(space, Tail(toks)),
                                          !.mode = "config-if"], "True")
             ELSE IF cmd = commit
             THEN Dispatched(commit_candidate(self, rc), "True")
             ELSE IF cmd \in {no, discard} /\ n = 2 /\ toks[2] = candidate
             THEN Dispatched([self EXCEPT !.ops = 0], "True")
             ELSE IF cmd = exit
             THEN Dispatched([self EXCEPT !.mode = "exec"], "True")
             ELSE Dispatched(self, "True")
        ELSE IF self.mode = "config-if"
        THEN IF cmd = ip /\ n >= 2 /\ toks[2] = address
             THEN IF n < 4 THEN Dispatched(self, "True")
                  ELSE int_prefix(self, toks[4])
             ELSE IF cmd = dns /\ n >= 2
             THEN Dispatched([self EXCEPT !.ops = @ + 1], "True")
             ELSE IF cmd = no /\ n = 3 /\ toks[2] = ip /\ toks[3] = address
             THEN Dispatched([self EXCEPT !.ops = @ + 1], "True")
             ELSE IF cmd = exit
             THEN Dispatched([self EXCEPT !.mode = "config",
                                          !.iface = None], "True")
             ELSE Dispatched(self, "True")
        ELSE Dispatched(self, "True")

InitCli ==
    /\ by_mode = EmptyRegistry
    /\ before = EmptyRegistry
    /\ call = NoCall
    /\ outcome = NoOutcome
    /\ shell = NoShell
    /\ registries = NoRegistries
    /\ router = NoRouter
    /\ cli = NewCLI

\* what an iteration of loop starts from
CliReading(ev, raw) ==
    [cli EXCEPT !.event = ev, !.line = raw, !.returned = "",
                !.was = cli.mode]

\* an iteration of loop that reads raw: a blank line is skipped; the loop
\* goes on if dispatch returns True, breaks if it returns False, and is
\* left by the exception if dispatch raises
CliLine(raw, rc) ==
    LET line == strip(raw)
        this == CliReading("line", raw)
        done == dispatch(this, line, rc)
    IN  /\ cli.looping
        /\ IF line = <<>> THEN cli' = this
           ELSE /\ done.ops <= MaxOps
                /\ cli' = [done EXCEPT !.looping = (done.returned = "True")]
        /\ UNCHANGED <<by_mode, before, call, outcome, shell, registries,
                       router>>

\* input() raises EOFError or KeyboardInterrupt: break
CliEOF ==
    /\ cli.looping
    /\ cli' = [CliReading("eof", <<>>) EXCEPT !.looping = FALSE]
    /\ UNCHANGED <<by_mode, before, call, outcome, shell, registries,
                   router>>

NextCli ==
    \/ \E raw \in CliLines, rc \in {0, 1} : CliLine(raw, rc)
    \/ CliEOF

SpecCli == InitCli /\ [][NextCli]_vars

\* C30: the interface is set exactly while the mode is config-if, the mode
\* is one of exec, config and config-if, and a dispatched line has ended the
\* loop only if it was exit or quit typed in mode exec
C30_IfaceIffConfigIf ==
    cli.made =>
        /\ cli.iface # None <=> cli.mode = "config-if"
        /\ cli.mode \in {"exec", "config", "config-if"}
        /\ (cli.event = "line" /\ ~cli.looping) =>
               /\ cli.was = "exec"
               /\ lower(split(cli.line)[1]) \in {quit, exit}

====
